---- MODULE Spec2Model ----
(***************************************************************************)
(* Reddit keyword alert: the poll / dedupe / match / notify cycle of       *)
(* reddit_monitor.py (check_reddit and the functions it calls) and the     *)
(* driver of main.py.                                                      *)
(*                                                                         *)
(* Text is a sequence of code points.  A seen set is held as the           *)
(* record [old, ids]: ids are the identifiers the modelled feeds can       *)
(* return, old counts the other identifiers of the set (identifiers of     *)
(* items that left the feeds; they are interchangeable, so only their      *)
(* number is kept).  The set has old + Cardinality(ids) members.           *)
(***************************************************************************)
EXTENDS Integers, Sequences, FiniteSets, TLC

VARIABLES
    KEYWORDS,      \* keywords.json, loaded at import
    files,         \* seen_posts.json / seen_comments.json, by kind
    pc,            \* position of the process in main.py / check_reddit
    cycle,         \* number of check_reddit calls started
    seen,          \* seen_posts / seen_comments of the running cycle, by kind
    all_matches,   \* all_matches of check_reddit
    new_checked,   \* new_posts_checked / new_comments_checked, by kind
    url,           \* fetch_multiple_batches: parameter, the feed asked
    num_batches,   \* fetch_multiple_batches: parameter
    all_items,     \* fetch_multiple_batches: all_items
    after,         \* fetch_multiple_batches: after
    batch_num,     \* fetch_multiple_batches: iterations of the for loop started
    broke,         \* fetch_multiple_batches: the loop was left by break
    page_log,      \* history: one record per requests.get of a stand-alone call
    result,        \* value returned by the last fetch_multiple_batches call
    sends,         \* history: resend.Emails.send calls of this cycle
    emails,        \* history: send_email calls of this cycle
    send_ok,       \* history: outcome of the dispatch of this cycle
    order,         \* history: feed identifiers of each seen set, oldest first
    processed,     \* history: identifiers process_items checked this cycle, by kind
    prev_matches,  \* history: all_matches of the previous completed cycle
    listed,        \* history: items the feeds have listed since start-up
    raised,        \* the exception that ended the process, "none" while it runs
    hash_order,    \* iteration order of each set of keywords in this process
    collected,     \* posts / comments of check_reddit, by kind
    trace,         \* history: the steps of the running cycle, in order
    fed,           \* history: identifiers each feed has listed since start-up
    failed         \* history: kinds whose collection met a failed page this cycle

vars == <<KEYWORDS, files, pc, cycle, seen, all_matches, new_checked,
          url, num_batches, all_items, after, batch_num, broke, page_log, result,
          sends, emails, send_ok, order, processed, prev_matches, listed,
          raised, hash_order, collected, trace, fed, failed>>

(***************************************************************************)
(* Bounds of the model.                                                    *)
(***************************************************************************)
MaxCycles  == 2   \* check_reddit calls explored
MaxListed  == 2   \* items the feeds list in one run, over all pages
MaxPage    == 2   \* items one page holds at most
MaxN       == 3   \* largest num_batches of the stand-alone collector runs

(***************************************************************************)
(* Program constants.                                                      *)
(***************************************************************************)
SEEN_CAP      == 5000   \* save_seen_items: entries kept
NUM_BATCHES   == 10     \* check_reddit: num_batches passed to the collector
SNIPPET_LEN   == 50     \* process_items: body[:50]

Kinds == {"post", "comment"}

(***************************************************************************)
(* Text.  A character is its Unicode code point, a string the sequence of  *)
(* its characters.                                                         *)
(***************************************************************************)
\* the printable ASCII characters, code points 32..126 in order; GRAVE stands
\* for the grave accent (96)
AsciiChars == <<
    " ", "!", "\"", "#", "$", "%", "&", "'", "(", ")", "*", "+", ",", "-",
    ".", "/", "0", "1", "2", "3", "4", "5", "6", "7", "8", "9", ":", ";",
    "<", "=", ">", "?", "@", "A", "B", "C", "D", "E", "F", "G", "H", "I",
    "J", "K", "L", "M", "N", "O", "P", "Q", "R", "S", "T", "U", "V", "W",
    "X", "Y", "Z", "[", "\\", "]", "^", "_", "GRAVE", "a", "b", "c", "d", "e",
    "f", "g", "h", "i", "j", "k", "l", "m", "n", "o", "p", "q", "r", "s",
    "t", "u", "v", "w", "x", "y", "z", "{", "|", "}", "~" >>

\* the code point of a printable ASCII character
Code(c) == 31 + CHOOSE i \in 1..Len(AsciiChars) : AsciiChars[i] = c

\* the string whose characters are the printable ASCII characters of s
Text(s) == [i \in 1..Len(s) |-> Code(s[i])]

\* the simple lower-case mappings of the characters above ASCII, as
\* <<first, last, step, delta>>: every step-th character c of first..last
\* has the lower case c + delta
LowerRules == <<
    <<192,214,1,32>>, <<216,222,1,32>>, <<256,302,2,1>>, <<306,310,2,1>>,
    <<313,327,2,1>>, <<330,374,2,1>>, <<376,376,1,-121>>, <<377,381,2,1>>,
    <<385,385,1,210>>, <<386,388,2,1>>, <<390,390,1,206>>, <<391,391,1,1>>,
    <<393,394,1,205>>, <<395,395,1,1>>, <<398,398,1,79>>,
    <<399,399,1,202>>, <<400,400,1,203>>, <<401,401,1,1>>,
    <<403,403,1,205>>, <<404,404,1,207>>, <<406,406,1,211>>,
    <<407,407,1,209>>, <<408,408,1,1>>, <<412,412,1,211>>,
    <<413,413,1,213>>, <<415,415,1,214>>, <<416,420,2,1>>,
    <<422,422,1,218>>, <<423,423,1,1>>, <<425,425,1,218>>, <<428,428,1,1>>,
    <<430,430,1,218>>, <<431,431,1,1>>, <<433,434,1,217>>, <<435,437,2,1>>,
    <<439,439,1,219>>, <<440,440,1,1>>, <<444,444,1,1>>, <<452,452,1,2>>,
    <<453,453,1,1>>, <<455,455,1,2>>, <<456,456,1,1>>, <<458,458,1,2>>,
    <<459,475,2,1>>, <<478,494,2,1>>, <<497,497,1,2>>, <<498,500,2,1>>,
    <<502,502,1,-97>>, <<503,503,1,-56>>, <<504,542,2,1>>,
    <<544,544,1,-130>>, <<546,562,2,1>>, <<570,570,1,10795>>,
    <<571,571,1,1>>, <<573,573,1,-163>>, <<574,574,1,10792>>,
    <<577,577,1,1>>, <<579,579,1,-195>>, <<580,580,1,69>>,
    <<581,581,1,71>>, <<582,590,2,1>>, <<880,882,2,1>>, <<886,886,1,1>>,
    <<895,895,1,116>>, <<902,902,1,38>>, <<904,906,1,37>>,
    <<908,908,1,64>>, <<910,911,1,63>>, <<913,929,1,32>>, <<931,939,1,32>>,
    <<975,975,1,8>>, <<984,1006,2,1>>, <<1012,1012,1,-60>>,
    <<1015,1015,1,1>>, <<1017,1017,1,-7>>, <<1018,1018,1,1>>,
    <<1021,1023,1,-130>>, <<1024,1039,1,80>>, <<1040,1071,1,32>>,
    <<1120,1152,2,1>>, <<1162,1214,2,1>>, <<1216,1216,1,15>>,
    <<1217,1229,2,1>>, <<1232,1326,2,1>>, <<1329,1366,1,48>>,
    <<4256,4293,1,7264>>, <<4295,4295,1,7264>>, <<4301,4301,1,7264>>,
    <<5024,5103,1,38864>>, <<5104,5109,1,8>>, <<7312,7354,1,-3008>>,
    <<7357,7359,1,-3008>>, <<7680,7828,2,1>>, <<7838,7838,1,-7615>>,
    <<7840,7934,2,1>>, <<7944,7951,1,-8>>, <<7960,7965,1,-8>>,
    <<7976,7983,1,-8>>, <<7992,7999,1,-8>>, <<8008,8013,1,-8>>,
    <<8025,8031,2,-8>>, <<8040,8047,1,-8>>, <<8072,8079,1,-8>>,
    <<8088,8095,1,-8>>, <<8104,8111,1,-8>>, <<8120,8121,1,-8>>,
    <<8122,8123,1,-74>>, <<8124,8124,1,-9>>, <<8136,8139,1,-86>>,
    <<8140,8140,1,-9>>, <<8152,8153,1,-8>>, <<8154,8155,1,-100>>,
    <<8168,8169,1,-8>>, <<8170,8171,1,-112>>, <<8172,8172,1,-7>>,
    <<8184,8185,1,-128>>, <<8186,8187,1,-126>>, <<8188,8188,1,-9>>,
    <<8486,8486,1,-7517>>, <<8490,8490,1,-8383>>, <<8491,8491,1,-8262>>,
    <<8498,8498,1,28>>, <<8544,8559,1,16>>, <<8579,8579,1,1>>,
    <<9398,9423,1,26>>, <<11264,11311,1,48>>, <<11360,11360,1,1>>,
    <<11362,11362,1,-10743>>, <<11363,11363,1,-3814>>,
    <<11364,11364,1,-10727>>, <<11367,11371,2,1>>,
    <<11373,11373,1,-10780>>, <<11374,11374,1,-10749>>,
    <<11375,11375,1,-10783>>, <<11376,11376,1,-10782>>,
    <<11378,11378,1,1>>, <<11381,11381,1,1>>, <<11390,11391,1,-10815>>,
    <<11392,11490,2,1>>, <<11499,11501,2,1>>, <<11506,11506,1,1>>,
    <<42560,42604,2,1>>, <<42624,42650,2,1>>, <<42786,42798,2,1>>,
    <<42802,42862,2,1>>, <<42873,42875,2,1>>, <<42877,42877,1,-35332>>,
    <<42878,42886,2,1>>, <<42891,42891,1,1>>, <<42893,42893,1,-42280>>,
    <<42896,42898,2,1>>, <<42902,42920,2,1>>, <<42922,42922,1,-42308>>,
    <<42923,42923,1,-42319>>, <<42924,42924,1,-42315>>,
    <<42925,42925,1,-42305>>, <<42926,42926,1,-42308>>,
    <<42928,42928,1,-42258>>, <<42929,42929,1,-42282>>,
    <<42930,42930,1,-42261>>, <<42931,42931,1,928>>, <<42932,42946,2,1>>,
    <<42948,42948,1,-48>>, <<42949,42949,1,-42307>>,
    <<42950,42950,1,-35384>>, <<42951,42953,2,1>>, <<42960,42960,1,1>>,
    <<42966,42968,2,1>>, <<42997,42997,1,1>>, <<65313,65338,1,32>>,
    <<66560,66599,1,40>>, <<66736,66771,1,40>>, <<66928,66964,2,39>>,
    <<66929,66938,1,39>>, <<66941,66954,1,39>>, <<66957,66962,1,39>>,
    <<66965,66965,1,39>>, <<68736,68786,1,64>>, <<71840,71871,1,32>>,
    <<93760,93791,1,32>>, <<125184,125217,1,34>> >>

\* the cased characters, as ranges <<first, last>>
CasedRanges == <<
    <<65,90>>, <<97,122>>, <<170,170>>, <<181,181>>, <<186,186>>,
    <<192,214>>, <<216,246>>, <<248,442>>, <<444,447>>, <<452,659>>,
    <<661,696>>, <<704,705>>, <<736,740>>, <<837,837>>, <<880,883>>,
    <<886,887>>, <<890,893>>, <<895,895>>, <<902,902>>, <<904,906>>,
    <<908,908>>, <<910,929>>, <<931,1013>>, <<1015,1153>>, <<1162,1327>>,
    <<1329,1366>>, <<1376,1416>>, <<4256,4293>>, <<4295,4295>>,
    <<4301,4301>>, <<4304,4346>>, <<4349,4351>>, <<5024,5109>>,
    <<5112,5117>>, <<7296,7304>>, <<7312,7354>>, <<7357,7359>>,
    <<7424,7615>>, <<7680,7957>>, <<7960,7965>>, <<7968,8005>>,
    <<8008,8013>>, <<8016,8023>>, <<8025,8025>>, <<8027,8027>>,
    <<8029,8029>>, <<8031,8061>>, <<8064,8116>>, <<8118,8124>>,
    <<8126,8126>>, <<8130,8132>>, <<8134,8140>>, <<8144,8147>>,
    <<8150,8155>>, <<8160,8172>>, <<8178,8180>>, <<8182,8188>>,
    <<8305,8305>>, <<8319,8319>>, <<8336,8348>>, <<8450,8450>>,
    <<8455,8455>>, <<8458,8467>>, <<8469,8469>>, <<8473,8477>>,
    <<8484,8484>>, <<8486,8486>>, <<8488,8488>>, <<8490,8493>>,
    <<8495,8500>>, <<8505,8505>>, <<8508,8511>>, <<8517,8521>>,
    <<8526,8526>>, <<8544,8575>>, <<8579,8580>>, <<9398,9449>>,
    <<11264,11492>>, <<11499,11502>>, <<11506,11507>>, <<11520,11557>>,
    <<11559,11559>>, <<11565,11565>>, <<42560,42605>>, <<42624,42653>>,
    <<42786,42887>>, <<42891,42894>>, <<42896,42954>>, <<42960,42961>>,
    <<42963,42963>>, <<42965,42969>>, <<42997,42998>>, <<43000,43002>>,
    <<43824,43866>>, <<43868,43880>>, <<43888,43967>>, <<64256,64262>>,
    <<64275,64279>>, <<65313,65338>>, <<65345,65370>>, <<66560,66639>>,
    <<66736,66771>>, <<66776,66811>>, <<66928,66938>>, <<66940,66954>>,
    <<66956,66962>>, <<66964,66965>>, <<66967,66977>>, <<66979,66993>>,
    <<66995,67001>>, <<67003,67004>>, <<67456,67456>>, <<67459,67461>>,
    <<67463,67504>>, <<67506,67514>>, <<68736,68786>>, <<68800,68850>>,
    <<71840,71903>>, <<93760,93823>>, <<119808,119892>>, <<119894,119964>>,
    <<119966,119967>>, <<119970,119970>>, <<119973,119974>>,
    <<119977,119980>>, <<119982,119993>>, <<119995,119995>>,
    <<119997,120003>>, <<120005,120069>>, <<120071,120074>>,
    <<120077,120084>>, <<120086,120092>>, <<120094,120121>>,
    <<120123,120126>>, <<120128,120132>>, <<120134,120134>>,
    <<120138,120144>>, <<120146,120485>>, <<120488,120512>>,
    <<120514,120538>>, <<120540,120570>>, <<120572,120596>>,
    <<120598,120628>>, <<120630,120654>>, <<120656,120686>>,
    <<120688,120712>>, <<120714,120744>>, <<120746,120770>>,
    <<120772,120779>>, <<122624,122633>>, <<122635,122654>>,
    <<125184,125251>>, <<127280,127305>>, <<127312,127337>>,
    <<127344,127369>> >>

\* the case-ignorable characters, as ranges <<first, last>>
CaseIgnorableRanges == <<
    <<39,39>>, <<46,46>>, <<58,58>>, <<94,94>>, <<96,96>>, <<168,168>>,
    <<173,173>>, <<175,175>>, <<180,180>>, <<183,184>>, <<688,879>>,
    <<884,885>>, <<890,890>>, <<900,901>>, <<903,903>>, <<1155,1161>>,
    <<1369,1369>>, <<1375,1375>>, <<1425,1469>>, <<1471,1471>>,
    <<1473,1474>>, <<1476,1477>>, <<1479,1479>>, <<1524,1524>>,
    <<1536,1541>>, <<1552,1562>>, <<1564,1564>>, <<1600,1600>>,
    <<1611,1631>>, <<1648,1648>>, <<1750,1757>>, <<1759,1768>>,
    <<1770,1773>>, <<1807,1807>>, <<1809,1809>>, <<1840,1866>>,
    <<1958,1968>>, <<2027,2037>>, <<2042,2042>>, <<2045,2045>>,
    <<2070,2093>>, <<2137,2139>>, <<2184,2184>>, <<2192,2193>>,
    <<2200,2207>>, <<2249,2306>>, <<2362,2362>>, <<2364,2364>>,
    <<2369,2376>>, <<2381,2381>>, <<2385,2391>>, <<2402,2403>>,
    <<2417,2417>>, <<2433,2433>>, <<2492,2492>>, <<2497,2500>>,
    <<2509,2509>>, <<2530,2531>>, <<2558,2558>>, <<2561,2562>>,
    <<2620,2620>>, <<2625,2626>>, <<2631,2632>>, <<2635,2637>>,
    <<2641,2641>>, <<2672,2673>>, <<2677,2677>>, <<2689,2690>>,
    <<2748,2748>>, <<2753,2757>>, <<2759,2760>>, <<2765,2765>>,
    <<2786,2787>>, <<2810,2815>>, <<2817,2817>>, <<2876,2876>>,
    <<2879,2879>>, <<2881,2884>>, <<2893,2893>>, <<2901,2902>>,
    <<2914,2915>>, <<2946,2946>>, <<3008,3008>>, <<3021,3021>>,
    <<3072,3072>>, <<3076,3076>>, <<3132,3132>>, <<3134,3136>>,
    <<3142,3144>>, <<3146,3149>>, <<3157,3158>>, <<3170,3171>>,
    <<3201,3201>>, <<3260,3260>>, <<3263,3263>>, <<3270,3270>>,
    <<3276,3277>>, <<3298,3299>>, <<3328,3329>>, <<3387,3388>>,
    <<3393,3396>>, <<3405,3405>>, <<3426,3427>>, <<3457,3457>>,
    <<3530,3530>>, <<3538,3540>>, <<3542,3542>>, <<3633,3633>>,
    <<3636,3642>>, <<3654,3662>>, <<3761,3761>>, <<3764,3772>>,
    <<3782,3782>>, <<3784,3789>>, <<3864,3865>>, <<3893,3893>>,
    <<3895,3895>>, <<3897,3897>>, <<3953,3966>>, <<3968,3972>>,
    <<3974,3975>>, <<3981,3991>>, <<3993,4028>>, <<4038,4038>>,
    <<4141,4144>>, <<4146,4151>>, <<4153,4154>>, <<4157,4158>>,
    <<4184,4185>>, <<4190,4192>>, <<4209,4212>>, <<4226,4226>>,
    <<4229,4230>>, <<4237,4237>>, <<4253,4253>>, <<4348,4348>>,
    <<4957,4959>>, <<5906,5908>>, <<5938,5939>>, <<5970,5971>>,
    <<6002,6003>>, <<6068,6069>>, <<6071,6077>>, <<6086,6086>>,
    <<6089,6099>>, <<6103,6103>>, <<6109,6109>>, <<6155,6159>>,
    <<6211,6211>>, <<6277,6278>>, <<6313,6313>>, <<6432,6434>>,
    <<6439,6440>>, <<6450,6450>>, <<6457,6459>>, <<6679,6680>>,
    <<6683,6683>>, <<6742,6742>>, <<6744,6750>>, <<6752,6752>>,
    <<6754,6754>>, <<6757,6764>>, <<6771,6780>>, <<6783,6783>>,
    <<6823,6823>>, <<6832,6862>>, <<6912,6915>>, <<6964,6964>>,
    <<6966,6970>>, <<6972,6972>>, <<6978,6978>>, <<7019,7027>>,
    <<7040,7041>>, <<7074,7077>>, <<7080,7081>>, <<7083,7085>>,
    <<7142,7142>>, <<7144,7145>>, <<7149,7149>>, <<7151,7153>>,
    <<7212,7219>>, <<7222,7223>>, <<7288,7293>>, <<7376,7378>>,
    <<7380,7392>>, <<7394,7400>>, <<7405,7405>>, <<7412,7412>>,
    <<7416,7417>>, <<7468,7530>>, <<7544,7544>>, <<7579,7679>>,
    <<8125,8125>>, <<8127,8129>>, <<8141,8143>>, <<8157,8159>>,
    <<8173,8175>>, <<8189,8190>>, <<8203,8207>>, <<8216,8217>>,
    <<8228,8228>>, <<8231,8231>>, <<8234,8238>>, <<8288,8292>>,
    <<8294,8303>>, <<8305,8305>>, <<8319,8319>>, <<8336,8348>>,
    <<8400,8432>>, <<11388,11389>>, <<11503,11505>>, <<11631,11631>>,
    <<11647,11647>>, <<11744,11775>>, <<11823,11823>>, <<12293,12293>>,
    <<12330,12333>>, <<12337,12341>>, <<12347,12347>>, <<12441,12446>>,
    <<12540,12542>>, <<40981,40981>>, <<42232,42237>>, <<42508,42508>>,
    <<42607,42610>>, <<42612,42621>>, <<42623,42623>>, <<42652,42655>>,
    <<42736,42737>>, <<42752,42785>>, <<42864,42864>>, <<42888,42890>>,
    <<42994,42996>>, <<43000,43001>>, <<43010,43010>>, <<43014,43014>>,
    <<43019,43019>>, <<43045,43046>>, <<43052,43052>>, <<43204,43205>>,
    <<43232,43249>>, <<43263,43263>>, <<43302,43309>>, <<43335,43345>>,
    <<43392,43394>>, <<43443,43443>>, <<43446,43449>>, <<43452,43453>>,
    <<43471,43471>>, <<43493,43494>>, <<43561,43566>>, <<43569,43570>>,
    <<43573,43574>>, <<43587,43587>>, <<43596,43596>>, <<43632,43632>>,
    <<43644,43644>>, <<43696,43696>>, <<43698,43700>>, <<43703,43704>>,
    <<43710,43711>>, <<43713,43713>>, <<43741,43741>>, <<43756,43757>>,
    <<43763,43764>>, <<43766,43766>>, <<43867,43871>>, <<43881,43883>>,
    <<44005,44005>>, <<44008,44008>>, <<44013,44013>>, <<64286,64286>>,
    <<64434,64450>>, <<65024,65039>>, <<65043,65043>>, <<65056,65071>>,
    <<65106,65106>>, <<65109,65109>>, <<65279,65279>>, <<65287,65287>>,
    <<65294,65294>>, <<65306,65306>>, <<65342,65342>>, <<65344,65344>>,
    <<65392,65392>>, <<65438,65439>>, <<65507,65507>>, <<65529,65531>>,
    <<66045,66045>>, <<66272,66272>>, <<66422,66426>>, <<67456,67461>>,
    <<67463,67504>>, <<67506,67514>>, <<68097,68099>>, <<68101,68102>>,
    <<68108,68111>>, <<68152,68154>>, <<68159,68159>>, <<68325,68326>>,
    <<68900,68903>>, <<69291,69292>>, <<69446,69456>>, <<69506,69509>>,
    <<69633,69633>>, <<69688,69702>>, <<69744,69744>>, <<69747,69748>>,
    <<69759,69761>>, <<69811,69814>>, <<69817,69818>>, <<69821,69821>>,
    <<69826,69826>>, <<69837,69837>>, <<69888,69890>>, <<69927,69931>>,
    <<69933,69940>>, <<70003,70003>>, <<70016,70017>>, <<70070,70078>>,
    <<70089,70092>>, <<70095,70095>>, <<70191,70193>>, <<70196,70196>>,
    <<70198,70199>>, <<70206,70206>>, <<70367,70367>>, <<70371,70378>>,
    <<70400,70401>>, <<70459,70460>>, <<70464,70464>>, <<70502,70508>>,
    <<70512,70516>>, <<70712,70719>>, <<70722,70724>>, <<70726,70726>>,
    <<70750,70750>>, <<70835,70840>>, <<70842,70842>>, <<70847,70848>>,
    <<70850,70851>>, <<71090,71093>>, <<71100,71101>>, <<71103,71104>>,
    <<71132,71133>>, <<71219,71226>>, <<71229,71229>>, <<71231,71232>>,
    <<71339,71339>>, <<71341,71341>>, <<71344,71349>>, <<71351,71351>>,
    <<71453,71455>>, <<71458,71461>>, <<71463,71467>>, <<71727,71735>>,
    <<71737,71738>>, <<71995,71996>>, <<71998,71998>>, <<72003,72003>>,
    <<72148,72151>>, <<72154,72155>>, <<72160,72160>>, <<72193,72202>>,
    <<72243,72248>>, <<72251,72254>>, <<72263,72263>>, <<72273,72278>>,
    <<72281,72283>>, <<72330,72342>>, <<72344,72345>>, <<72752,72758>>,
    <<72760,72765>>, <<72767,72767>>, <<72850,72871>>, <<72874,72880>>,
    <<72882,72883>>, <<72885,72886>>, <<73009,73014>>, <<73018,73018>>,
    <<73020,73021>>, <<73023,73029>>, <<73031,73031>>, <<73104,73105>>,
    <<73109,73109>>, <<73111,73111>>, <<73459,73460>>, <<78896,78904>>,
    <<92912,92916>>, <<92976,92982>>, <<92992,92995>>, <<94031,94031>>,
    <<94095,94111>>, <<94176,94177>>, <<94179,94180>>, <<110576,110579>>,
    <<110581,110587>>, <<110589,110590>>, <<113821,113822>>,
    <<113824,113827>>, <<118528,118573>>, <<118576,118598>>,
    <<119143,119145>>, <<119155,119170>>, <<119173,119179>>,
    <<119210,119213>>, <<119362,119364>>, <<121344,121398>>,
    <<121403,121452>>, <<121461,121461>>, <<121476,121476>>,
    <<121499,121503>>, <<121505,121519>>, <<122880,122886>>,
    <<122888,122904>>, <<122907,122913>>, <<122915,122916>>,
    <<122918,122922>>, <<123184,123197>>, <<123566,123566>>,
    <<123628,123631>>, <<125136,125142>>, <<125252,125259>>,
    <<127995,127999>>, <<917505,917505>>, <<917536,917631>>,
    <<917760,917999>> >>

InRanges(c, rs) == \E n \in 1..Len(rs) : rs[n][1] <= c /\ c <= rs[n][2]

IsCased(c) == InRanges(c, CasedRanges)

IsCaseIgnorable(c) == InRanges(c, CaseIgnorableRanges)

InRule(c, r) == r[1] <= c /\ c <= r[2] /\ (c - r[1]) % r[3] = 0

\* str.lower() on one character out of context: the characters of its full
\* lower-case mapping (capital I with dot above, 304, has two)
LowerChar(c) ==
    IF c < 128
    THEN IF 65 <= c /\ c <= 90 THEN <<c + 32>> ELSE <<c>>
    ELSE IF c = 304
    THEN <<105, 775>>
    ELSE IF \E n \in 1..Len(LowerRules) : InRule(c, LowerRules[n])
    THEN <<c + LowerRules[CHOOSE n \in 1..Len(LowerRules) : InRule(c, LowerRules[n])][4]>>
    ELSE <<c>>

\* a capital sigma at position i of s is final: the nearest character before
\* it that is not case-ignorable is cased, the nearest after it is not
FinalSigma(s, i) ==
    LET before == { j \in 1..(i - 1) : ~IsCaseIgnorable(s[j]) }
        behind == { j \in (i + 1)..Len(s) : ~IsCaseIgnorable(s[j]) }
    IN  /\ before # {}
        /\ IsCased(s[CHOOSE j \in before : \A k \in before : k <= j])
        /\ \/ behind = {}
           \/ ~IsCased(s[CHOOSE j \in behind : \A k \in behind : j <= k])

\* the lower case of the character at position i of s
LowerAt(s, i) ==
    IF s[i] = 931
    THEN IF FinalSigma(s, i) THEN <<962>> ELSE <<963>>
    ELSE LowerChar(s[i])

RECURSIVE LowerFrom(_, _)
LowerFrom(s, i) ==
    IF i > Len(s) THEN <<>> ELSE LowerAt(s, i) \o LowerFrom(s, i + 1)

\* str.lower()
lower(s) == LowerFrom(s, 1)

\* Python's  k in s  on strings
Contains(s, k) ==
    \E i \in 0..(Len(s) - Len(k)) : SubSeq(s, i + 1, i + Len(k)) = k

\* Python's  s[:n]
Prefix(s, n) == SubSeq(s, 1, IF Len(s) < n THEN Len(s) ELSE n)

\* a key the JSON object does not have
ABSENT == <<0 - 1>>

\* dict.get(key, default)
Get(v, default) == IF v = ABSENT THEN default ELSE v

(***************************************************************************)
(* Feed items.  A raw item is one entry of data.children; has_data tells   *)
(* whether it is an object with a "data" key, the other fields are the     *)
(* keys of item["data"] that process_items reads.                          *)
(***************************************************************************)
RawItem(i, t, st, b, lt, pl) ==
    [has_data |-> TRUE, id |-> i, title |-> t, selftext |-> st, body |-> b,
     link_title |-> lt, permalink |-> pl]

\* an entry without "data", such as {}
Malformed ==
    [has_data |-> FALSE, id |-> "", title |-> ABSENT, selftext |-> ABSENT,
     body |-> ABSENT, link_title |-> ABSENT, permalink |-> ABSENT]

PostA == RawItem("x1", Text(<<"C","a","t","s">>), <<>>, ABSENT, ABSENT,
                 Text(<<"/","p","1">>))
PostB == RawItem("x2", Text(<<"d","o","g">>), Text(<<"o","k">>), ABSENT, ABSENT,
                 Text(<<"/","p","2">>))
ComA  == RawItem("x1", ABSENT, ABSENT, Text(<<"a"," ","C","A","T">>),
                 Text(<<"d","o","g">>), Text(<<"/","c","1">>))
ComB  == RawItem("x2", ABSENT, ABSENT, Text(<<"d","o","g">>), ABSENT,
                 Text(<<"/","c","2">>))

\* what each feed can list
FeedItems(u) ==
    IF u = "posts" THEN {PostA, PostB, Malformed} ELSE {ComA, ComB, Malformed}

\* the children arrays of one page
Pages(u) ==
    UNION {[1..n -> FeedItems(u)] : n \in 0..MaxPage}

\* keywords.json
KeywordLists ==
    { <<>>,
      << Text(<<"C","a","t">>) >>,
      << Text(<<"g"," ","o">>), Text(<<"o","k">>) >>,
      << Text(<<"C","o","m","m","e","n","t">>) >> }

Range(q) == { q[i] : i \in 1..Len(q) }

\* the sequences that list every member of the set m once
Orderings(m) ==
    { q \in [1..Cardinality(m) -> m] :
        \A i, j \in 1..Cardinality(m) : i # j => q[i] # q[j] }

\* the functions that give every set of the family S one of its orderings
RECURSIVE OrderChoices(_)
OrderChoices(S) ==
    IF S = {} THEN { <<>> }
    ELSE LET m == CHOOSE x \in S : TRUE
         IN  { (m :> q) @@ f : q \in Orderings(m), f \in OrderChoices(S \ {m}) }

\* how this process can iterate over the sets of keywords of kw: the order of
\* a set follows the hashes of its members (seeded per process) and the table
\* built for that set, so each set has an order of its own
HashOrders(kw) == OrderChoices(SUBSET Range(kw))

(***************************************************************************)
(* Feed Page Fetcher: what one requests.get / raise_for_status / json /    *)
(* data["data"]["children"] can come to.  fault "none" is a decoded page.  *)
(***************************************************************************)
NoCursor == "<None>"
Cursors  == {NoCursor, "", "t3_a", "t3_b"}

Faults == {"transport", "status", "payload"}

Responses(u) ==
    [fault : {"none"}, children : Pages(u), after : Cursors]
    \cup [fault : Faults, children : {<<>>}, after : {NoCursor}]

\* Python truth value of the cursor:  not after
Falsy(a) == a \in {NoCursor, ""}

\* lines 95-97: the after parameter of batch_url ("<None>" when none is sent)
BatchAfter(a) == IF Falsy(a) THEN NoCursor ELSE a

(***************************************************************************)
(* fetch_multiple_batches, one action per iteration of its for loop.       *)
(***************************************************************************)
Fetching == pc \in {"fetch_posts", "fetch_comments", "fetch_call"}

\* a loop that runs once more than range(num_batches)
LoopDone_one_more == broke \/ batch_num > num_batches

\* line 92 and the breaks: the for loop is over
LoopDone == broke \/ batch_num >= num_batches

\* lines 89-90: entry of fetch_multiple_batches(u, n)
FetchEntry(u, n) ==
    /\ url' = u
    /\ num_batches' = n
    /\ all_items' = <<>>
    /\ after' = NoCursor
    /\ batch_num' = 0
    /\ broke' = FALSE
    /\ page_log' = <<>>

\* the try body with line 114 testing the cursor alone
PageOk_ignores_empty(r) ==
    /\ all_items' = all_items \o r.children
    /\ after' = r.after
    /\ broke' = Falsy(r.after)
    /\ UNCHANGED <<pc, raised>>

\* the try body with line 106 putting the page in front
PageOk_prepends(r) ==
    /\ all_items' = r.children \o all_items
    /\ after' = r.after
    /\ broke' = (Falsy(r.after) \/ Len(r.children) = 0)
    /\ UNCHANGED <<pc, raised>>

\* lines 104-116: the body of the try after a page decoded
PageOk(r) ==
    /\ all_items' = all_items \o r.children
    /\ after' = r.after
    /\ broke' = (Falsy(r.after) \/ Len(r.children) = 0)
    /\ UNCHANGED <<pc, raised>>

\* an except branch that drops what was collected
PageFailed_discards ==
    /\ broke' = TRUE
    /\ all_items' = <<>>
    /\ UNCHANGED <<after, pc, raised>>

\* an except branch that re-raises
PageFailed_raises ==
    /\ pc' = "crashed"
    /\ raised' = "RequestException"
    /\ UNCHANGED <<all_items, after, broke>>

\* lines 118-120: the except branch
PageFailed ==
    /\ broke' = TRUE
    /\ UNCHANGED <<all_items, after, pc, raised>>

\* the kind of item a feed lists
KindOf(u) == IF u = "posts" THEN "post" ELSE "comment"

\* the identifiers of the well-formed items of q
IdsOf(q) == { q[i].id : i \in { j \in 1..Len(q) : q[j].has_data } }

\* check_reddit saving the seen sets before it sends the email
Follows_saves_first(p) ==
    CASE p = "fetch_posts"      -> "process_posts"
      [] p = "process_posts"    -> "fetch_comments"
      [] p = "fetch_comments"   -> "process_comments"
      [] p = "process_comments" -> "save"
      [] p = "save"             -> "notify"
      [] p = "notify"           -> "idle"
      [] p = "fetch_call"       -> "returned"

\* the position of check_reddit (or of a stand-alone call) after position p
Follows(p) ==
    CASE p = "fetch_posts"      -> "process_posts"
      [] p = "process_posts"    -> "fetch_comments"
      [] p = "fetch_comments"   -> "process_comments"
      [] p = "process_comments" -> "notify"
      [] p = "notify"           -> "save"
      [] p = "save"             -> "idle"
      [] p = "fetch_call"       -> "returned"

\* the step of a cycle that position p belongs to
PhaseOf(p) ==
    CASE p = "fetch_posts"      -> "CollectPosts"
      [] p = "process_posts"    -> "MatchAndFilter"
      [] p = "fetch_comments"   -> "CollectComments"
      [] p = "process_comments" -> "MatchAndFilter"
      [] p = "notify"           -> "Notify"
      [] p = "save"             -> "PersistState"
      [] p = "idle"             -> "Done"
      [] p = "returned"         -> "Returned"

\* lines 92-120: one iteration
FetchPage ==
    /\ Fetching
    /\ ~LoopDone
    /\ \E r \in Responses(url) :
          /\ listed + Len(r.children) <= MaxListed
          /\ listed' = listed + Len(r.children)
          /\ page_log' = IF pc = "fetch_call"
                          THEN Append(page_log, [sent |-> BatchAfter(after), reply |-> r])
                          ELSE page_log
          /\ failed' = IF r.fault = "none" THEN failed ELSE failed \cup {KindOf(url)}
          /\ fed' = [fed EXCEPT ![KindOf(url)] = @ \cup IdsOf(r.children)]
          /\ IF r.fault = "none" THEN PageOk(r) ELSE PageFailed
    /\ batch_num' = batch_num + 1
    /\ UNCHANGED <<KEYWORDS, files, cycle, seen, all_matches, new_checked,
                   url, num_batches, result, sends, emails, send_ok, order,
                   processed, prev_matches, hash_order, collected, trace>>

\* line 122: return all_items; the locals of the call are gone
FetchReturn ==
    /\ Fetching
    /\ LoopDone
    /\ result' = all_items
    /\ all_items' = <<>>
    /\ after' = NoCursor
    /\ batch_num' = 0
    /\ broke' = FALSE
    /\ collected' = [collected EXCEPT ![KindOf(url)] = all_items]
    /\ pc' = Follows(pc)
    /\ trace' = Append(trace, PhaseOf(pc'))
    /\ UNCHANGED <<KEYWORDS, files, cycle, seen, all_matches, new_checked,
                   url, num_batches,
                   page_log, sends, emails, send_ok, order, processed,
                   prev_matches, listed, raised, hash_order, fed, failed>>

(***************************************************************************)
(* Seen sets and their files.                                              *)
(***************************************************************************)
EmptySeen == [old |-> 0, ids |-> {}]
NoFile    == [st |-> "missing", old |-> 0, ids |-> {}]
Corrupt   == [st |-> "corrupt", old |-> 0, ids |-> {}]
Stored(s) == [st |-> "ok", old |-> s.old, ids |-> s.ids]

\* len(seen_items)
SeenLen(s) == s.old + Cardinality(s.ids)

\* lines 27-32: load_seen_items; json.load raises on a file that is not JSON
load_seen_items(f) ==
    CASE f.st = "missing" -> [raised |-> FALSE, items |-> EmptySeen]
      [] f.st = "corrupt" -> [raised |-> TRUE,  items |-> EmptySeen]
      [] f.st = "ok"      -> [raised |-> FALSE, items |-> [old |-> f.old, ids |-> f.ids]]

\* lines 36-38: list(seen_items)[-5000:].  A Python set iterates in hash
\* order, so the slice keeps any SEEN_CAP members: drop is the set of feed
\* identifiers left out, the rest of the surplus comes out of old.
Truncations(s) ==
    LET surplus == SeenLen(s) - SEEN_CAP
    IN  { [old |-> s.old - (surplus - Cardinality(drop)), ids |-> s.ids \ drop] :
            drop \in { d \in SUBSET s.ids :
                         /\ Cardinality(d) <= surplus
                         /\ surplus - Cardinality(d) <= s.old } }

\* save_seen_items without the slice of line 38
save_seen_items_uncapped(seen_items) == { Stored(seen_items) }

\* lines 34-40: save_seen_items, the contents the file can get
save_seen_items(seen_items) ==
    IF SeenLen(seen_items) > SEEN_CAP
    THEN { Stored(t) : t \in Truncations(seen_items) }
    ELSE { Stored(seen_items) }

(***************************************************************************)
(* process_items.                                                          *)
(***************************************************************************)
SiteBase ==
    Text(<<"h","t","t","p","s",":","/","/","r","e","d","d","i","t",".","c","o","m">>)
CommentPrefix == Text(<<"C","o","m","m","e","n","t",":"," ">>)
Ellipsis == Text(<<".",".",".">>)

\* lines 140-149: title and body of an item
BodyOf(d, item_type) ==
    IF item_type = "post" THEN Get(d.selftext, <<>>) ELSE Get(d.body, <<>>)

TitleOf(d, item_type) ==
    IF item_type = "comment"
    THEN Get(d.link_title,
             CommentPrefix \o Prefix(BodyOf(d, item_type), SNIPPET_LEN) \o Ellipsis)
    ELSE Get(d.title, <<>>)

\* line 152
ContentOf(d, item_type) ==
    lower(TitleOf(d, item_type) \o Text(<<" ">>) \o BodyOf(d, item_type))

\* lines 155-158 without the two lower() calls
MatchedKeywords_case_sensitive(d, item_type) ==
    { KEYWORDS[j] : j \in { n \in 1..Len(KEYWORDS) :
                              Contains(TitleOf(d, item_type) \o Text(<<" ">>) \o BodyOf(d, item_type),
                                       KEYWORDS[n]) } }

\* lines 155-158
MatchedKeywords(d, item_type) ==
    { KEYWORDS[j] : j \in { n \in 1..Len(KEYWORDS) :
                              Contains(ContentOf(d, item_type), lower(KEYWORDS[n])) } }

\* iteration over the set m of keywords in a process whose sets iterate as
\* h tells
SetOrderIn(h, m) == h[m]

\* iteration over the set m of keywords in this process
SetOrder(m) == SetOrderIn(hash_order, m)

\* ", ".join(q)
RECURSIVE Join(_)
Join(q) ==
    IF q = <<>> THEN <<>>
    ELSE IF Len(q) = 1 THEN q[1]
    ELSE q[1] \o Text(<<",", " ">>) \o Join(Tail(q))

\* lines 162-169
MatchRecord(d, item_type) ==
    [keywords |-> Join(SetOrder(MatchedKeywords(d, item_type))),
     title    |-> TitleOf(d, item_type),
     url      |-> SiteBase \o Get(d.permalink, <<>>),
     type     |-> item_type]

\* process_items with line 172 moved under the if of line 161
ProcessOne_marks_matches_only(item, acc, item_type) ==
    IF ~item.has_data
    THEN [acc EXCEPT !.raised = TRUE]
    ELSE IF item.id \in acc.seen.ids
    THEN acc
    ELSE [matches |-> IF MatchedKeywords(item, item_type) # {}
                      THEN Append(acc.matches, MatchRecord(item, item_type))
                      ELSE acc.matches,
          new_items_checked |-> acc.new_items_checked + 1,
          seen    |-> IF MatchedKeywords(item, item_type) # {}
                      THEN [acc.seen EXCEPT !.ids = @ \cup {item.id}]
                      ELSE acc.seen,
          checked |-> Append(acc.checked, item.id),
          raised  |-> FALSE]

\* process_items without the test of line 134
ProcessOne_skips_seen_test(item, acc, item_type) ==
    IF ~item.has_data
    THEN [acc EXCEPT !.raised = TRUE]
    ELSE [matches |-> IF MatchedKeywords(item, item_type) # {}
                      THEN Append(acc.matches, MatchRecord(item, item_type))
                      ELSE acc.matches,
          new_items_checked |-> acc.new_items_checked + 1,
          seen    |-> [acc.seen EXCEPT !.ids = @ \cup {item.id}],
          checked |-> Append(acc.checked, item.id),
          raised  |-> FALSE]

\* lines 130-172: one iteration of the for loop; acc.checked is the history
\* of the identifiers counted by new_items_checked (line 137), in order
ProcessOne(item, acc, item_type) ==
    IF ~item.has_data
    THEN [acc EXCEPT !.raised = TRUE]
    ELSE IF item.id \in acc.seen.ids
    THEN acc
    ELSE [matches |-> IF MatchedKeywords(item, item_type) # {}
                      THEN Append(acc.matches, MatchRecord(item, item_type))
                      ELSE acc.matches,
          new_items_checked |-> acc.new_items_checked + 1,
          seen    |-> [acc.seen EXCEPT !.ids = @ \cup {item.id}],
          checked |-> Append(acc.checked, item.id),
          raised  |-> FALSE]

RECURSIVE ProcessLoop(_, _, _, _)
ProcessLoop(items, i, acc, item_type) ==
    IF i > Len(items) \/ acc.raised
    THEN acc
    ELSE ProcessLoop(items, i + 1, ProcessOne(items[i], acc, item_type), item_type)

\* lines 124-174
process_items(items, seen_items, item_type) ==
    ProcessLoop(items, 1,
                [matches |-> <<>>, new_items_checked |-> 0, seen |-> seen_items,
                 checked |-> <<>>, raised |-> FALSE],
                item_type)

(***************************************************************************)
(* check_reddit, called by main.py at start-up and then by the schedule.   *)
(***************************************************************************)
FetchLocals == <<url, num_batches, all_items, after, batch_num, broke, page_log>>

\* the process ends on an exception e that nothing catches
Crash(e) ==
    /\ pc' = "crashed"
    /\ raised' = e
    /\ UNCHANGED <<seen, all_matches, new_checked, FetchLocals, result, order,
                   processed, trace>>

\* the identifiers of q that are in ids, in the order of q
RECURSIVE Keep(_, _)
Keep(q, ids) ==
    IF q = <<>> THEN <<>>
    ELSE IF Head(q) \in ids THEN <<Head(q)>> \o Keep(Tail(q), ids)
    ELSE Keep(Tail(q), ids)

\* main.py lines 14 and 20, check_reddit lines 183-190
StartCycle ==
    /\ pc = "idle"
    /\ cycle < MaxCycles
    /\ cycle' = cycle + 1
    /\ prev_matches' = all_matches
    /\ sends' = 0
    /\ emails' = 0
    /\ send_ok' = "none"
    /\ LET p == load_seen_items(files["post"])
           c == load_seen_items(files["comment"])
       IN  IF p.raised \/ c.raised
           THEN /\ pc' = "crashed"
                /\ raised' = "JSONDecodeError"
                /\ trace' = <<"LoadState">>
                /\ UNCHANGED <<seen, order, FetchLocals>>
           ELSE /\ pc' = "fetch_posts"
                /\ trace' = <<"LoadState", PhaseOf(pc')>>
                /\ seen' = [k \in Kinds |-> IF k = "post" THEN p.items ELSE c.items]
                /\ order' = [k \in Kinds |-> Keep(order[k], seen'[k].ids)]
                /\ FetchEntry("posts", NUM_BATCHES)
                /\ UNCHANGED raised
    /\ all_matches' = <<>>
    /\ new_checked' = [k \in Kinds |-> 0]
    /\ processed' = [k \in Kinds |-> {}]
    /\ result' = <<>>
    /\ collected' = [k \in Kinds |-> <<>>]
    /\ failed' = {}
    /\ UNCHANGED <<KEYWORDS, files, listed, hash_order, fed>>

\* check_reddit keeping one seen set for both kinds
Processed_shared(k, r) ==
    /\ seen' = [j \in Kinds |-> [seen[j] EXCEPT !.ids = @ \cup r.seen.ids]]
    /\ all_matches' = all_matches \o r.matches
    /\ new_checked' = [new_checked EXCEPT ![k] = r.new_items_checked]
    /\ order' = [order EXCEPT ![k] = @ \o Keep(r.checked, r.seen.ids \ seen[k].ids)]
    /\ processed' = [processed EXCEPT ![k] = Range(r.checked)]

\* lines 193-194 (posts) and 204-205 (comments)
Processed(k, r) ==
    /\ seen' = [seen EXCEPT ![k] = r.seen]
    /\ all_matches' = all_matches \o r.matches
    /\ new_checked' = [new_checked EXCEPT ![k] = r.new_items_checked]
    /\ order' = [order EXCEPT ![k] = @ \o Keep(r.checked, r.seen.ids \ seen[k].ids)]
    /\ processed' = [processed EXCEPT ![k] = Range(r.checked)]

\* lines 193-201
ProcessPosts ==
    /\ pc = "process_posts"
    /\ LET r == process_items(result, seen["post"], "post")
       IN  IF r.raised
           THEN Crash("KeyError")
           ELSE /\ Processed("post", r)
                /\ pc' = Follows(pc)
                /\ trace' = Append(trace, PhaseOf(pc'))
                /\ FetchEntry("comments", NUM_BATCHES)
                /\ result' = <<>>
                /\ UNCHANGED raised
    /\ UNCHANGED <<KEYWORDS, files, cycle, sends, emails, send_ok, prev_matches,
                   listed, hash_order, collected, fed, failed>>

\* lines 204-205
ProcessComments ==
    /\ pc = "process_comments"
    /\ LET r == process_items(result, seen["comment"], "comment")
       IN  IF r.raised
           THEN Crash("KeyError")
           ELSE /\ Processed("comment", r)
                /\ pc' = Follows(pc)
                /\ trace' = Append(trace, PhaseOf(pc'))
                /\ FetchEntry(url, num_batches)
                /\ result' = <<>>
                /\ UNCHANGED raised
    /\ UNCHANGED <<KEYWORDS, files, cycle, sends, emails, send_ok, prev_matches,
                   listed, hash_order, collected, fed, failed>>

\* lines 42-85: send_email(matches) when resend.Emails.send succeeds (ok)
\* or raises: calls of resend.Emails.send and the value returned
send_email(matches, ok) ==
    IF matches = <<>>
    THEN [sent |-> 0, returned |-> "none"]
    ELSE [sent |-> 1, returned |-> IF ok THEN "ok" ELSE "failed"]

\* check_reddit without the test of line 218
Dispatches_always(matches) == 1

\* lines 218-221: calls of send_email
Dispatches(matches) == IF matches # <<>> THEN 1 ELSE 0

\* lines 217-221
Notify ==
    /\ pc = "notify"
    /\ emails' = emails + Dispatches(all_matches)
    /\ IF Dispatches(all_matches) > 0
       THEN \E ok \in BOOLEAN :
               /\ sends' = sends + send_email(all_matches, ok).sent
               /\ send_ok' = send_email(all_matches, ok).returned
       ELSE UNCHANGED <<sends, send_ok>>
    /\ pc' = Follows(pc)
    /\ trace' = Append(trace, PhaseOf(pc'))
    /\ UNCHANGED <<KEYWORDS, files, cycle, seen, all_matches, new_checked,
                   FetchLocals, result, order, processed, prev_matches, listed,
                   raised, hash_order, collected, fed, failed>>

\* lines 224-227
SaveSeen ==
    /\ pc = "save"
    /\ \E fp \in save_seen_items(seen["post"]) :
       \E fc \in save_seen_items(seen["comment"]) :
          files' = [k \in Kinds |-> IF k = "post" THEN fp ELSE fc]
    /\ pc' = Follows(pc)
    /\ trace' = Append(trace, PhaseOf(pc'))
    /\ UNCHANGED <<KEYWORDS, cycle, seen, all_matches, new_checked, FetchLocals,
                   result, sends, emails, send_ok, order, processed,
                   prev_matches, listed, raised, hash_order, collected, fed,
                   failed>>

\* the files main.py can find when it starts
StartFiles ==
    {NoFile, Corrupt} \cup
    { [st |-> "ok", old |-> n, ids |-> {}] : n \in {SEEN_CAP - 1, SEEN_CAP} }

Init ==
    /\ KEYWORDS \in KeywordLists
    /\ files \in [Kinds -> StartFiles]
    /\ pc = "idle"
    /\ cycle = 0
    /\ seen = [k \in Kinds |-> EmptySeen]
    /\ all_matches = <<>>
    /\ new_checked = [k \in Kinds |-> 0]
    /\ url = "posts"
    /\ num_batches = NUM_BATCHES
    /\ all_items = <<>>
    /\ after = NoCursor
    /\ batch_num = 0
    /\ broke = FALSE
    /\ page_log = <<>>
    /\ result = <<>>
    /\ sends = 0
    /\ emails = 0
    /\ send_ok = "none"
    /\ order = [k \in Kinds |-> <<>>]
    /\ processed = [k \in Kinds |-> {}]
    /\ prev_matches = <<>>
    /\ listed = 0
    /\ raised = "none"
    /\ hash_order \in HashOrders(KEYWORDS)
    /\ collected = [k \in Kinds |-> <<>>]
    /\ trace = <<>>
    /\ fed = [k \in Kinds |-> {}]
    /\ failed = {}

Next ==
    \/ StartCycle
    \/ FetchPage
    \/ FetchReturn
    \/ ProcessPosts
    \/ ProcessComments
    \/ Notify
    \/ SaveSeen

Spec == Init /\ [][Next]_vars

\* a stand-alone call fetch_multiple_batches(u, n)
InitFetch ==
    /\ KEYWORDS = <<>>
    /\ files = [k \in Kinds |-> NoFile]
    /\ pc = "fetch_call"
    /\ cycle = 0
    /\ seen = [k \in Kinds |-> EmptySeen]
    /\ all_matches = <<>>
    /\ new_checked = [k \in Kinds |-> 0]
    /\ url \in {"posts", "comments"}
    /\ num_batches \in 0..MaxN
    /\ all_items = <<>>
    /\ after = NoCursor
    /\ batch_num = 0
    /\ broke = FALSE
    /\ page_log = <<>>
    /\ result = <<>>
    /\ sends = 0
    /\ emails = 0
    /\ send_ok = "none"
    /\ order = [k \in Kinds |-> <<>>]
    /\ processed = [k \in Kinds |-> {}]
    /\ prev_matches = <<>>
    /\ listed = 0
    /\ raised = "none"
    /\ hash_order \in HashOrders(KEYWORDS)
    /\ collected = [k \in Kinds |-> <<>>]
    /\ trace = <<>>
    /\ fed = [k \in Kinds |-> {}]
    /\ failed = {}

NextFetch == FetchPage \/ FetchReturn

SpecFetch == InitFetch /\ [][NextFetch]_vars

(***************************************************************************)
(* Properties.                                                             *)
(***************************************************************************)
CycleDone == pc = "idle" /\ cycle > 0

\* the items a match record of q was built from, as <<kind, url>>
MatchKeys(q) == { <<q[i].type, q[i].url>> : i \in 1..Len(q) }

FeedOf(k) == IF k = "post" THEN "posts" ELSE "comments"

\* the identifiers of the items of kind k that all_matches reports
MatchedIds(k) ==
    { it.id : it \in { x \in FeedItems(FeedOf(k)) :
                         /\ x.has_data
                         /\ <<k, SiteBase \o x.permalink>> \in MatchKeys(all_matches) } }

\* the n identifiers added last among those of q (all of q when it has fewer)
LastAdded(q, n) ==
    { q[i] : i \in { j \in 1..Len(q) : j > Len(q) - n } }

\* C1: an item matched in a cycle that saved its seen sets produces no match
\* record in the next cycle, which loads them.
C1_MatchedAtMostOnce ==
    MatchKeys(prev_matches) \cap MatchKeys(all_matches) = {}

\* C2: after save_seen_items the persisted list of either kind has at most
\* 5000 entries, whatever the size of the set in memory.
C2_PersistedWithinCap ==
    CycleDone =>
        \A k \in Kinds : files[k].st = "ok" /\ SeenLen(files[k]) <= SEEN_CAP

C2_Witness ==
    /\ CycleDone
    /\ \E k \in Kinds : SeenLen(seen[k]) > SEEN_CAP + 1

\* C3: saving a set of more than 5000 identifiers persists exactly the 5000
\* added most recently (those loaded from the file being the oldest).
C3_KeepsMostRecent ==
    CycleDone =>
        \A k \in Kinds :
            SeenLen(seen[k]) > SEEN_CAP =>
                /\ SeenLen(files[k]) = SEEN_CAP
                /\ files[k].ids = LastAdded(order[k], SEEN_CAP)

\* C4: load_seen_items never raises: a corrupt seen-store file is read as an
\* empty set and the cycle goes on.
C4_CorruptStoreReadsEmpty ==
    raised # "JSONDecodeError"

\* C5: a cycle that reached its dispatch persists both seen sets, and after
\* a failed dispatch the persisted sets hold the identifiers of the matched
\* items.
C5_MatchedPersistedAfterFailedDispatch ==
    CycleDone =>
        /\ \A k \in Kinds : files[k].st = "ok"
        /\ send_ok = "failed" => \A k \in Kinds : MatchedIds(k) \subseteq files[k].ids

\* C6: send_email is called at most once per cycle and only with a non-empty
\* all_matches; a cycle without a match sends nothing.
C6_OneDispatchOnlyOnMatches ==
    /\ emails <= 1
    /\ sends <= emails
    /\ emails = 1 => all_matches # <<>>
    /\ (CycleDone /\ all_matches = <<>>) => (emails = 0 /\ sends = 0)

C6_Witness ==
    /\ CycleDone
    /\ emails = 1
    /\ sends = 1
    /\ \E i, j \in 1..Len(all_matches) :
          all_matches[i].type = "post" /\ all_matches[j].type = "comment"

\* C7: every item process_items checked is in the seen set of its kind,
\* matched or not, and is in the persisted set after the cycle when the set
\* stayed within the cap.
C7_ProcessedAreSeen ==
    \A k \in Kinds :
        /\ processed[k] \subseteq seen[k].ids
        /\ (CycleDone /\ SeenLen(seen[k]) <= SEEN_CAP) =>
               processed[k] \subseteq files[k].ids

C7_Witness ==
    /\ CycleDone
    /\ all_matches = <<>>
    /\ KEYWORDS # <<>>
    /\ \E k \in Kinds : processed[k] # {} /\ processed[k] \subseteq files[k].ids

(***************************************************************************)
(* Properties of fetch_multiple_batches.                                   *)
(***************************************************************************)
\* the page decoded, held items and carried a cursor
Continues(e) ==
    e.reply.fault = "none" /\ e.reply.children # <<>> /\ ~Falsy(e.reply.after)

\* the children of the first n pages of the log, concatenated
RECURSIVE Collected(_, _)
Collected(log, n) ==
    IF n = 0 THEN <<>> ELSE Collected(log, n - 1) \o log[n].reply.children

\* C8: fetch_multiple_batches(url, N) issues at most N page fetches; with
\* N = 0 it issues none and returns an empty collection.
C8_AtMostNFetches ==
    /\ Len(page_log) <= num_batches
    /\ (pc = "returned" /\ num_batches = 0) => (page_log = <<>> /\ result = <<>>)

C8_Witness ==
    /\ pc = "returned"
    /\ num_batches = 2
    /\ Len(page_log) = num_batches
    /\ Continues(page_log[2])

\* C9: no fetch follows a page with an empty item list or without a next
\* cursor, and every fetch after the first passes the cursor of the page
\* before it.
C9_StopsAndChainsCursor ==
    \A i \in 1..Len(page_log) :
        /\ i < Len(page_log) =>
               (page_log[i].reply.children # <<>> /\ ~Falsy(page_log[i].reply.after))
        /\ page_log[i].sent = IF i = 1 THEN NoCursor ELSE page_log[i - 1].reply.after

C9_Witness ==
    /\ pc = "returned"
    /\ num_batches = MaxN
    /\ Len(page_log) = 2
    /\ Continues(page_log[1])
    /\ page_log[2].sent = "t3_b"
    /\ page_log[2].reply.fault = "none"
    /\ page_log[2].reply.children = <<>>
    /\ ~Falsy(page_log[2].reply.after)

\* C10: when the fetch of page k fails, no further fetch is issued, nothing
\* is raised, and the call returns exactly the items of pages 1..k-1.
C10_FailureKeepsEarlierPages ==
    \A k \in 1..Len(page_log) :
        page_log[k].reply.fault # "none" =>
            /\ k = Len(page_log)
            /\ raised = "none"
            /\ Fetching => all_items = Collected(page_log, k - 1)
            /\ pc = "returned" => result = Collected(page_log, k - 1)

C10_Witness ==
    /\ pc = "returned"
    /\ Len(page_log) = 2
    /\ page_log[2].reply.fault = "payload"
    /\ result = page_log[1].reply.children
    /\ Len(result) = 2

(***************************************************************************)
(* Properties of a cycle: failures, matching, order of the steps.          *)
(***************************************************************************)
\* process_items(k) of the running cycle has returned
Matched(k) ==
    /\ cycle > 0
    /\ pc \in (IF k = "post"
               THEN {"fetch_comments", "process_comments", "notify", "save", "idle"}
               ELSE {"notify", "save", "idle"})

\* the well-formed items of kind k collected and checked in this cycle
CheckedItems(k) ==
    { collected[k][i] : i \in { j \in 1..Len(collected[k]) :
                                  /\ collected[k][j].has_data
                                  /\ collected[k][j].id \in processed[k] } }

\* the match records of all_matches built from the item d of kind k
RecordsOf(k, d) ==
    { all_matches[i] : i \in { j \in 1..Len(all_matches) :
                                 /\ all_matches[j].type = k
                                 /\ all_matches[j].url = SiteBase \o Get(d.permalink, <<>>) } }

\* the feed item a match record was built from
ItemOf(rec) ==
    CHOOSE x \in FeedItems(FeedOf(rec.type)) :
        x.has_data /\ SiteBase \o Get(x.permalink, <<>>) = rec.url

\* the configured keywords whose lower-cased form is a substring of text
KeywordsIn(text) ==
    { KEYWORDS[j] : j \in { n \in 1..Len(KEYWORDS) : Contains(text, lower(KEYWORDS[n])) } }

\* the keywords strings a record of the keyword set m can carry
Renderings(m) == { Join(q) : q \in Orderings(m) }

\* all_matches reports exactly the checked items whose text(d, k) holds a
\* keyword, each with the keywords that its text holds
MatchesAre(text(_, _)) ==
    /\ \A k \in Kinds :
          Matched(k) =>
              \A d \in CheckedItems(k) :
                  /\ (KeywordsIn(text(d, k)) # {}) <=> (RecordsOf(k, d) # {})
                  /\ \A rec \in RecordsOf(k, d) :
                        rec.keywords \in Renderings(KeywordsIn(text(d, k)))
    /\ \A i \in 1..Len(all_matches) :
          \E d \in CheckedItems(all_matches[i].type) :
              all_matches[i] \in RecordsOf(all_matches[i].type, d)
    /\ KEYWORDS = <<>> => all_matches = <<>>

\* lower-cased title directly followed by the body
TitleThenBody(d, k) == lower(TitleOf(d, k) \o BodyOf(d, k))

\* lower-cased title, one space, body
TitleSpaceBody(d, k) == lower(TitleOf(d, k) \o Text(<<" ">>) \o BodyOf(d, k))

IsPrefix(a, b) == Len(a) <= Len(b) /\ SubSeq(b, 1, Len(a)) = a

\* C11: a feed page whose item records are malformed never aborts the cycle:
\* a cycle that collected a malformed record still runs on.
C11_MalformedPageNeverAborts ==
    \A k \in Kinds :
        (\E i \in 1..Len(collected[k]) : ~collected[k][i].has_data) => pc # "crashed"

\* C12: an identifier is in the seen set of a kind, and in its file, only
\* when the feed of that kind listed it; an item whose identifier is not in
\* the file of its own kind is checked as unseen, whatever the other file
\* holds.
C12_SeenSetsIndependent ==
    \A k \in Kinds :
        /\ seen[k].ids \subseteq fed[k]
        /\ files[k].ids \subseteq fed[k]
        /\ (Matched(k) /\ pc # "idle") =>
               /\ IdsOf(collected[k]) \ files[k].ids \subseteq processed[k]
               /\ processed[k] \cap files[k].ids = {}

C12_Witness ==
    /\ pc = "save"
    /\ "x1" \in files["comment"].ids
    /\ "x1" \notin files["post"].ids
    /\ "x1" \in processed["post"]
    /\ "x1" \in MatchedIds("post")

\* C13 as stated: the matched keywords of a checked item are the keywords
\* whose lower-cased form is a substring of the lower-cased title concatenated
\* with the body; it has a match record iff there is one.
C13_MatchesTitleConcatBody == MatchesAre(TitleThenBody)

\* C13 amended: the matched keywords of a checked item are the keywords whose
\* lower-cased form is a substring of the lower-cased text made of the title,
\* one space and the body; it has a match record iff there is one, and with
\* an empty keyword list there is no match record.
C13_MatchesTitleSpaceBody == MatchesAre(TitleSpaceBody)

C13_Witness ==
    /\ CycleDone
    /\ Len(KEYWORDS) = 2
    /\ \E d \in CheckedItems("post") :
          /\ Cardinality(KeywordsIn(TitleSpaceBody(d, "post"))) = 2
          /\ RecordsOf("post", d) # {}
    /\ \E d \in CheckedItems("post") : RecordsOf("post", d) = {}

\* C14: a failed page never ends the process; a cycle whose posts collection
\* failed still checks the comments it collected and persists them, and a
\* cycle whose comments collection failed keeps the matches of its posts.
C14_FailedCollectionKeepsOtherKind ==
    /\ pc = "crashed" =>
          \/ raised = "JSONDecodeError"
          \/ raised = "KeyError" /\ \E i \in 1..Len(result) : ~result[i].has_data
    /\ (CycleDone /\ "post" \in failed) =>
          /\ IdsOf(collected["comment"]) \subseteq seen["comment"].ids
          /\ SeenLen(seen["comment"]) <= SEEN_CAP =>
                 IdsOf(collected["comment"]) \subseteq files["comment"].ids
          /\ \A d \in CheckedItems("comment") :
                 MatchedKeywords(d, "comment") # {} => RecordsOf("comment", d) # {}
    /\ (CycleDone /\ "comment" \in failed) =>
          \A d \in CheckedItems("post") :
              MatchedKeywords(d, "post") # {} => RecordsOf("post", d) # {}

C14_Witness ==
    /\ CycleDone
    /\ failed = {"post"}
    /\ collected["post"] # <<>>
    /\ \E d \in CheckedItems("comment") :
          /\ RecordsOf("comment", d) # {}
          /\ d.id \in files["comment"].ids

\* C15: fetch_multiple_batches returns the items of its pages in feed order:
\* the pages in the order fetched, each page in its own order.
C15_FeedOrderPreserved ==
    /\ Fetching => all_items = Collected(page_log, Len(page_log))
    /\ pc = "returned" => result = Collected(page_log, Len(page_log))

C15_Witness ==
    /\ pc = "returned"
    /\ Len(page_log) = 2
    /\ page_log[1].reply.children = <<PostB>>
    /\ page_log[2].reply.children = <<PostA>>
    /\ result = <<PostB, PostA>>

\* the order of the steps as the state machine of the specification has it
StatedOrder ==
    <<"LoadState", "CollectPosts", "CollectComments", "MatchAndFilter",
      "Notify", "PersistState", "Done">>

\* the order of the steps with the matching of each kind after its collection
KindByKindOrder ==
    <<"LoadState", "CollectPosts", "MatchAndFilter", "CollectComments",
      "MatchAndFilter", "Notify", "PersistState", "Done">>

\* C16 as stated: the steps of a cycle are LoadState, CollectPosts,
\* CollectComments, MatchAndFilter, Notify, PersistState, Done in that order,
\* none entered twice.
C16_StepsInStatedOrder == IsPrefix(trace, StatedOrder)

\* C16 amended: the steps of a cycle are LoadState, CollectPosts,
\* MatchAndFilter (posts), CollectComments, MatchAndFilter (comments), Notify,
\* PersistState, Done in that order, none other entered twice.
C16_StepsKindByKind == IsPrefix(trace, KindByKindOrder)

C16_Witness ==
    /\ CycleDone
    /\ trace = KindByKindOrder
    /\ emails = 1
    /\ cycle = 2

\* C17: the keywords string of a match record is the same in every run: a
\* process whose sets iterate in another order renders the same string for
\* the same item and keyword list.
C17_KeywordsStringDeterministic ==
    \A i \in 1..Len(all_matches) :
        \A h \in HashOrders(KEYWORDS) :
            all_matches[i].keywords =
                Join(SetOrderIn(h, MatchedKeywords(ItemOf(all_matches[i]),
                                                   all_matches[i].type)))

\* C18: every cycle reaches Done: a cycle that has started and is not done
\* can take its next step.
C18_CycleReachesDone ==
    (cycle > 0 /\ pc # "idle") => ENABLED Next

\* C19: an identifier collected more than once in a cycle is counted as new
\* once and has at most one match record.
C19_DuplicateIdCountsOnce ==
    /\ \A k \in Kinds : Matched(k) => new_checked[k] = Cardinality(processed[k])
    /\ \A i, j \in 1..Len(all_matches) :
          (all_matches[i].type = all_matches[j].type
             /\ all_matches[i].url = all_matches[j].url) => i = j

C19_Witness ==
    /\ CycleDone
    /\ collected["post"] = <<PostA, PostA>>
    /\ new_checked["post"] = 1
    /\ Len(all_matches) = 1

\* the text of a comment that came from the feed
OwnText(d) ==
    IF d.link_title = ABSENT
    THEN lower(Get(d.body, <<>>))
    ELSE lower(d.link_title \o Text(<<" ">>) \o Get(d.body, <<>>))

\* C20: a comment has a match record only if a keyword occurs, whatever the
\* case, in its link title or its body.
C20_CommentMatchesOwnTextOnly ==
    \A i \in 1..Len(all_matches) :
        all_matches[i].type = "comment" =>
            KeywordsIn(OwnText(ItemOf(all_matches[i]))) # {}

====
